---- MODULE Spec2Model ----
(***************************************************************************)
(* Order saga of LuffyPirate19/fsProject.                                  *)
(*                                                                         *)
(* The repository ships the saga twice: as Supabase edge functions over    *)
(* PostgreSQL (impl = "edge") and as an Express server over MongoDB        *)
(* (impl = "server").  One order is followed through the pipeline; the     *)
(* stage handlers are asynchronous, so every await that separates the      *)
(* idempotency check from the writes is a separate step.                   *)
(***************************************************************************)
EXTENDS Integers, Sequences, FiniteSets, Bags, TLC

VARIABLES
  impl,      \* which of the two implementations is deployed
  seeded,    \* TRUE when the order followed is the seed row ORD-2025-003
  order,     \* the row of the orders table: [status, stage]
  events,    \* order_events of the order, in insertion order; id = position
  keys,      \* idempotency_keys: set of [etype, corr, eventId]
  dlq,       \* dead_letter_queue rows of the order, in insertion order
  inv,       \* bag of the stage handler invocations in flight
  done,      \* set of the outcomes of the invocations that returned and of
             \* the retries a client saw rejected
  retried,   \* number of retries accepted so far; retry k of the edge
             \* functions carries correlation id k
  sweep,     \* the auto-retry runs: [pc, items, pos] per sweeper
  dups,      \* number of requests the transport delivered a second time
  visited,   \* history: the current_stage values the order has taken
  cap,       \* bounds of the run: [inv, events, dups], fixed by Init
  now,       \* the clock createOrder reads: [year, ms]
  db,        \* the tables across orders, as createOrder writes them:
             \* [orders, items, events, keys, triggers]
  replies,   \* the responses of the createOrder calls, in call order
  diag,      \* the response of the last diagnose call
  rb,        \* a run of retryWithBackoff: [n, opts, script, attempt, calls,
             \* lastError, result, value, retries, delays]
  sv         \* a call of validateEventSchema: [eventType, payload, version,
             \* result]

vars == <<impl, seeded, order, events, keys, dlq, inv, done, retried, sweep, dups, visited, cap,
          now, db, replies, diag, rb, sv>>

\* the state of one order's saga
sagaVars == <<impl, seeded, order, events, keys, dlq, inv, done, retried, sweep, dups, visited, cap>>

\* the state the calls of the order API read and write
apiVars == <<now, db, replies, diag, rb, sv>>

----------------------------------------------------------------------------
(* Bounds of the exploration *)

\* invocations in flight at a time
MaxInv == 2

\* length of the event log
MaxEvents == 8

\* requests the transport delivers twice
MaxDup == 1

\* length of the event log when the dead-letter queue is followed
MaxSweepEvents == 13

\* length of the event log when one sweep at a time is followed
MaxLongEvents == 16

\* createOrder calls followed
MaxCalls == 2

\* clock steps followed
MaxTicks == 2

\* new years followed
MaxYears == 1

\* largest maxAttempts given to retryWithBackoff
MaxAttempts == 4

\* values of Math.random() followed: j / JitterSteps for j < JitterSteps
JitterSteps == 4

\* half cooldowns the clock of the sweeps may advance
MaxWaits == 2

----------------------------------------------------------------------------
(* Stages, event types and services *)

Impls == {"edge", "server"}

Stages == {"inventory", "payment", "shipping"}

AllStages == <<"order", "inventory", "payment", "shipping", "completed">>

SuccessType(s) ==
  CASE s = "inventory" -> "InventoryReserved"
    [] s = "payment"   -> "PaymentAuthorized"
    [] s = "shipping"  -> "OrderShipped"

FailureType(s) ==
  CASE s = "inventory" -> "InventoryFailed"
    [] s = "payment"   -> "PaymentFailed"
    [] s = "shipping"  -> "OrderFailed"

ServiceName(s) ==
  CASE s = "inventory" -> "inventory-service"
    [] s = "payment"   -> "payment-service"
    [] s = "shipping"  -> "shipping-service"

NextStage(s) ==
  CASE s = "inventory" -> "payment"
    [] s = "payment"   -> "shipping"
    [] s = "shipping"  -> "none"

Event(t, c, svc, act) == [type |-> t, corr |-> c, svc |-> svc, action |-> act]

NoOrder == [status |-> "none", stage |-> "none"]

\* the rows the first migration inserts for ORD-2025-003
SeedOrder == [status |-> "failed", stage |-> "payment"]

SeedEvents ==
  << Event("OrderCreated", 0, "order-service", ""),
     Event("InventoryReserved", 0, "inventory-service", ""),
     Event("PaymentFailed", 0, "payment-service", "") >>

----------------------------------------------------------------------------
(* Tables *)

\* UPDATE orders ... WHERE id = orderId: no row, no effect
UpdateOrder(o, st, sg) ==
  IF o.status = "none" THEN o
  ELSE [status |-> IF st = "same" THEN o.status ELSE st, stage |-> sg]

\* history of the stages the row takes
Track(vs, o) == IF o.status = "none" THEN vs ELSE vs \cup {o.stage}

HasKey(ks, t, c) == \E k \in ks : k.etype = t /\ k.corr = c

KeyEvent(ks, t, c) == (CHOOSE k \in ks : k.etype = t /\ k.corr = c).eventId

\* checkIdempotency: a read of idempotency_keys by key
checkIdempotency(ks, t, c) ==
  IF HasKey(ks, t, c)
  THEN [isDuplicate |-> TRUE, existingEventId |-> KeyEvent(ks, t, c)]
  ELSE [isDuplicate |-> FALSE, existingEventId |-> 0]

\* a store that drops the key
storeNothing(ks, t, c, eid) == ks

\* storeIdempotencyKey: insert, a unique violation on the key is ignored
storeIdempotencyKey(ks, t, c, eid) ==
  IF HasKey(ks, t, c) THEN ks
  ELSE ks \cup {[etype |-> t, corr |-> c, eventId |-> eid]}

\* a timestamp column that is null
NoTime == -1

DlqRow(t, c, st) ==
  [etype |-> t, corr |-> c, retry_count |-> 0, status |-> st, last_retry_at |-> NoTime,
   replayed_at |-> NoTime]

\* a request to a stage handler; watch = "racing" while its sender still
\* waits for the response, "none" when the sender only logs a failure
Invocation(s, c, w) == [stage |-> s, corr |-> c, pc |-> "sent", watch |-> w]

Add(b, r) == b (+) SetToBag({r})

Remove(b, r) == b (-) SetToBag({r})

InFlight == BagToSet(inv)

\* what a handler that returned leaves behind: the verdict of its guard
\* (existing), the event it appended (produced) and its response
Outcome(r, out, resp, eid, existing, produced) ==
  [stage |-> r.stage, corr |-> r.corr, outcome |-> out, resp |-> resp,
   eventId |-> eid, existing |-> existing, produced |-> produced]

\* a handler returns: the invocation stays in flight only while its sender
\* still waits
Return(b, r) ==
  IF r.watch \in {"racing", "wrote_event", "wrote_order"} THEN Add(Remove(b, r), [r EXCEPT !.pc = "done"])
  ELSE Remove(b, r)

----------------------------------------------------------------------------
(* createOrder *)

\* an entry `key: 'type'` of a schema; keyMark and typeMark tell whether the
\* key and the type end with '?'
Field(k, t) == [key |-> k, type |-> t, keyMark |-> FALSE, typeMark |-> FALSE]

\* an entry `key: 'type?'`
OptionalField(k, t) == [key |-> k, type |-> t, keyMark |-> FALSE, typeMark |-> TRUE]

\* the registered version of every schema
SchemaVersion == 1

EVENT_SCHEMAS ==
  [OrderCreated |->
     [version |-> SchemaVersion,
      schema |-> <<Field("orderId", "string"), Field("customerId", "string"),
                   Field("customerName", "string"), Field("items", "array"),
                   Field("totalAmount", "number"), Field("correlationId", "string")>>],
   InventoryReserved |->
     [version |-> SchemaVersion,
      schema |-> <<Field("orderId", "string"), Field("correlationId", "string"),
                   Field("reserved", "boolean")>>],
   InventoryFailed |->
     [version |-> SchemaVersion,
      schema |-> <<Field("orderId", "string"), Field("correlationId", "string"),
                   Field("reason", "string")>>],
   PaymentAuthorized |->
     [version |-> SchemaVersion,
      schema |-> <<Field("orderId", "string"), Field("correlationId", "string"),
                   Field("authorized", "boolean"),
                   OptionalField("transactionId", "string")>>],
   PaymentFailed |->
     [version |-> SchemaVersion,
      schema |-> <<Field("orderId", "string"), Field("correlationId", "string"),
                   Field("reason", "string")>>],
   OrderShipped |->
     [version |-> SchemaVersion,
      schema |-> <<Field("orderId", "string"), Field("correlationId", "string"),
                   Field("trackingNumber", "string"), Field("shipped", "boolean")>>],
   OrderFailed |->
     [version |-> SchemaVersion,
      schema |-> <<Field("orderId", "string"), Field("correlationId", "string"),
                   Field("reason", "string"), Field("stage", "string")>>],
   CompensationStarted |->
     [version |-> SchemaVersion,
      schema |-> <<Field("orderId", "string"), Field("correlationId", "string"),
                   Field("action", "string")>>]]

\* the loop over the entries of a schema, from entry k on: the errors pushed.
\* A payload maps the fields it has to the typeof of their values ("array"
\* for an array).
RECURSIVE FieldErrors(_, _, _)
FieldErrors(schema, payload, k) ==
  IF k > Len(schema) THEN <<>>
  ELSE LET e == schema[k]
           rest == FieldErrors(schema, payload, k + 1) IN
       IF e.key \notin DOMAIN payload
       THEN IF e.keyMark THEN rest
            ELSE <<[kind |-> "Missing required field", field |-> e.key]>> \o rest
       ELSE IF payload[e.key] # e.type
       THEN <<[kind |-> "must be", field |-> e.key]>> \o rest
       ELSE rest

\* validateEventSchema: [valid, errors]; errors is <<>> where the code
\* returns undefined
validateEventSchema(eventType, payload, version) ==
  IF eventType \notin DOMAIN EVENT_SCHEMAS
  THEN [valid |-> FALSE, errors |-> <<[kind |-> "Unknown event type", field |-> ""]>>]
  ELSE IF EVENT_SCHEMAS[eventType].version # version
  THEN [valid |-> FALSE, errors |-> <<[kind |-> "Version mismatch", field |-> ""]>>]
  ELSE LET errors == FieldErrors(EVENT_SCHEMAS[eventType].schema, payload, 1) IN
       [valid |-> Len(errors) = 0, errors |-> errors]

\* fields of the payload each createOrder builds for OrderCreated
EventPayloadFields(i) ==
  IF i = "edge"
  THEN {"orderId", "customerId", "customerNameHash", "items", "totalAmount", "correlationId"}
  ELSE {"orderId", "customerId", "customerName", "items", "totalAmount", "correlationId"}

\* that payload: every field is a string but the items and the total
EventPayload(i) ==
  [f \in EventPayloadFields(i) |->
     CASE f = "items" -> "array"
       [] f = "totalAmount" -> "number"
       [] OTHER -> "string"]

\* only the edge createOrder validates the payload
SchemaOk(i) ==
  i = "server" \/ validateEventSchema("OrderCreated", EventPayload(i), SchemaVersion).valid

\* event types a caller may name: the registered ones, and OrderRetried,
\* which has no schema
EventTypes == DOMAIN EVENT_SCHEMAS \cup {"OrderRetried"}

\* keys of the schema of event type t
SchemaKeys(t) ==
  IF t \in DOMAIN EVENT_SCHEMAS
  THEN {EVENT_SCHEMAS[t].schema[k].key : k \in 1..Len(EVENT_SCHEMAS[t].schema)}
  ELSE {}

\* declared type of key f of event type t
DeclaredType(t, f) ==
  LET sc == EVENT_SCHEMAS[t].schema IN
  sc[CHOOSE k \in 1..Len(sc) : sc[k].key = f].type

\* payloads for event type t: every field of the schema is absent, present
\* with the declared type, or present with another type
Payloads(t) ==
  {[f \in {g \in SchemaKeys(t) : kinds[g] # "absent"} |->
      IF kinds[f] = "ok" THEN DeclaredType(t, f) ELSE "object"] :
     kinds \in [SchemaKeys(t) -> {"absent", "ok", "wrong"}]}

NoResult == [valid |-> FALSE, errors |-> <<[kind |-> "not called", field |-> ""]>>]

NoValidation == [eventType |-> "none", payload |-> <<>>, version |-> 0, result |-> NoResult]

\* the calls of validateEventSchema about to be made
Validations ==
  UNION {{[eventType |-> t, payload |-> p, version |-> v, result |-> NoResult] :
            p \in Payloads(t), v \in {SchemaVersion, SchemaVersion + 1}} :
         t \in EventTypes}

Validate ==
  /\ sv.result = NoResult
  /\ sv.eventType # "none"
  /\ sv' = [sv EXCEPT !.result = validateEventSchema(sv.eventType, sv.payload, sv.version)]
  /\ UNCHANGED <<sagaVars, now, db, replies, diag, rb>>

\* the trigger of the first stage: neither implementation marks the order
\* when it fails
CreateOrder ==
  /\ ~seeded
  /\ order.status = "none"
  /\ LET o1 == [status |-> "pending", stage |-> "order"] IN
     /\ order' = o1
     /\ visited' = Track(visited, o1)
     /\ IF SchemaOk(impl)
        THEN /\ events' = Append(events, Event("OrderCreated", 0, "order-service", ""))
             /\ keys' = keys \cup {[etype |-> IF impl = "edge" THEN "create_order"
                                                ELSE "OrderCreated",
                                    corr |-> 0, eventId |-> Len(events) + 1]}
             /\ inv' = Add(inv, Invocation("inventory", 0, "none"))
        ELSE UNCHANGED <<events, keys, inv>>
  /\ UNCHANGED <<apiVars, impl, seeded, dlq, done, retried, sweep, dups, cap>>

----------------------------------------------------------------------------
(* Stage handlers *)

\* the guard at the head of every handler
\* the handler is past its idempotency check: "run" after a check that
\* found no key, "blind" after a check that could not read the store
Started(r) == r.pc \in {"run", "blind"}

\* checkIdempotency when the read of idempotency_keys returns an error or
\* throws: "On error, proceed (fail open)"
checkIdempotencyFailed == [isDuplicate |-> FALSE, existingEventId |-> 0]

HandlerCheck(r) ==
  /\ r.pc = "sent"
  /\ LET g == checkIdempotency(keys, SuccessType(r.stage), r.corr) IN
     IF g.isDuplicate
     THEN /\ inv' = Return(inv, r)
          /\ done' = done \cup
               {Outcome(r, "duplicate",
                        IF impl = "edge" THEN "already_processed" ELSE "processed",
                        IF impl = "edge" THEN g.existingEventId ELSE 0,
                        g.existingEventId, 0)}
     ELSE /\ inv' = Add(Remove(inv, r), [r EXCEPT !.pc = "run"])
          /\ done' = done
  /\ UNCHANGED <<apiVars, impl, seeded, order, events, keys, dlq, retried, sweep, dups, visited, cap>>

\* the handler's idempotency check while the key store is unavailable
HandlerCheckFails(r) ==
  /\ r.pc = "sent"
  /\ inv' = IF checkIdempotencyFailed.isDuplicate THEN Return(inv, r)
            ELSE Add(Remove(inv, r), [r EXCEPT !.pc = "blind"])
  /\ UNCHANGED <<apiVars, impl, seeded, order, events, keys, dlq, done, retried, sweep, dups,
                 visited, cap>>

\* order update of the success path
SuccessUpdate(i, s, o) ==
  IF i = "edge"
  THEN CASE s = "inventory" -> UpdateOrder(o, "processing", "payment")
         [] s = "payment"   -> UpdateOrder(o, "same", "shipping")
         [] s = "shipping"  -> UpdateOrder(o, "completed", "completed")
  ELSE CASE s = "inventory" -> UpdateOrder(o, "processing", "inventory")
         [] s = "payment"   -> UpdateOrder(o, "processing", "payment")
         [] s = "shipping"  -> UpdateOrder(o, "completed", "completed")

\* status string of a successful response
SuccessResp(i, s) ==
  IF i = "server" THEN "processed"
  ELSE CASE s = "inventory" -> "reserved"
         [] s = "payment"   -> "authorized"
         [] s = "shipping"  -> "shipped"

\* the request that starts the next stage; its sender handles a failure
TriggerNext(b, s, c) ==
  IF NextStage(s) = "none" THEN b
  ELSE Add(b, Invocation(NextStage(s), c, "racing"))

HandlerSuccess(r) ==
  /\ Started(r)
  /\ LET s == r.stage
         c == r.corr
         eid == Len(events) + 1
         o1 == SuccessUpdate(impl, s, order)
         b == TriggerNext(Return(inv, r), s, c)
     IN
     /\ BagCardinality(b) <= cap.inv
     /\ Len(events) < cap.events
     /\ events' = Append(events, Event(SuccessType(s), c, ServiceName(s), ""))
     /\ keys' = storeIdempotencyKey(keys, SuccessType(s), c, eid)
     /\ order' = o1
     /\ visited' = Track(visited, o1)
     /\ inv' = b
     /\ done' = done \cup
          {Outcome(r, "success", SuccessResp(impl, s),
                   IF impl = "edge" THEN eid ELSE 0, 0, eid)}
  /\ UNCHANGED <<apiVars, impl, seeded, dlq, retried, sweep, dups, cap>>

\* a compensation for every failing stage, inventory included
CompensationEverywhere(i, s) ==
  IF s = "shipping" THEN "refund_payment_and_release_inventory" ELSE "release_inventory"

\* payload.action of the CompensationStarted event a failing stage appends
CompensationAction(i, s) ==
  IF i = "edge"
  THEN CASE s = "inventory" -> "none"
         [] s = "payment"   -> "release_inventory"
         [] s = "shipping"  -> "refund_payment_and_release_inventory"
  ELSE CASE s = "inventory" -> "none"
         [] s = "payment"   -> "none"
         [] s = "shipping"  -> "refund_payment_and_release_inventory"

CompensationEvents(i, s, c) ==
  IF CompensationAction(i, s) = "none" THEN <<>>
  ELSE << Event("CompensationStarted", c, "compensation-service", CompensationAction(i, s)) >>

\* the events of the failure path, in the order each implementation appends them
FailureEvents(i, s, c) ==
  LET f == << Event(FailureType(s), c, ServiceName(s), "") >> IN
  IF i = "edge" THEN f \o CompensationEvents(i, s, c)
  ELSE CompensationEvents(i, s, c) \o f

\* position of the failure event among FailureEvents
FailureEventOffset(i, s) ==
  IF i = "edge" THEN 1 ELSE Len(CompensationEvents(i, s, 0)) + 1

\* status of the dead_letter_queue row a failing stage inserts
DlqStatus(i) == IF i = "edge" THEN "failed" ELSE "pending"

HandlerFailure(r) ==
  /\ Started(r)
  /\ LET s == r.stage
         c == r.corr
         dup == impl = "edge" /\ checkIdempotency(keys, FailureType(s), c).isDuplicate
         o1 == UpdateOrder(order, "failed", s)
         fid == Len(events) + FailureEventOffset(impl, s)
     IN
     /\ inv' = Return(inv, r)
     /\ done' = done \cup
          {Outcome(r, "failed", IF impl = "edge" THEN "failed" ELSE "error",
                   0, 0, IF dup THEN 0 ELSE fid)}
     /\ IF dup
        THEN UNCHANGED <<events, keys, order, dlq, visited>>
        ELSE /\ Len(events) + Len(FailureEvents(impl, s, c)) <= cap.events
             /\ events' = events \o FailureEvents(impl, s, c)
             /\ keys' = IF impl = "edge"
                        THEN storeIdempotencyKey(keys, FailureType(s), c, fid)
                        ELSE keys
             /\ order' = o1
             /\ visited' = Track(visited, o1)
             /\ dlq' = Append(dlq, DlqRow(FailureType(s), c, DlqStatus(impl)))
  /\ UNCHANGED <<apiVars, impl, seeded, retried, sweep, dups, cap>>

\* the sender of a request: the response arrives first
ResponseArrives(r) ==
  /\ r.pc = "done"
  /\ r.watch = "racing"
  /\ inv' = Remove(inv, r)
  /\ UNCHANGED <<apiVars, impl, seeded, order, events, keys, dlq, done, retried, sweep, dups, visited, cap>>

\* the stage whose handler sends the request to stage s
Sender(s) == IF s = "payment" THEN "inventory" ELSE "payment"

\* the sender of a request: the fetch is rejected, or (edge) the 10 s timeout
\* wins the race; the handler itself may still run
TriggerFailed(r) ==
  /\ r.watch = "racing"
  /\ Len(events) < cap.events
  /\ LET o1 == UpdateOrder(order, "failed", r.stage) IN
     /\ events' = Append(events, Event("OrderFailed", r.corr, ServiceName(Sender(r.stage)), ""))
     /\ order' = o1
     /\ visited' = Track(visited, o1)
  /\ inv' = IF r.pc = "done" THEN Remove(inv, r)
            ELSE Add(Remove(inv, r), [r EXCEPT !.watch = "settled"])
  /\ UNCHANGED <<apiVars, impl, seeded, keys, dlq, done, retried, sweep, dups, cap>>

\* the failure callback has nothing left to write
Settle(b, r) ==
  IF r.pc = "done" THEN Remove(b, r)
  ELSE Add(Remove(b, r), [r EXCEPT !.watch = "settled"])

\* one of the two writes of the failure callback is done: w tells which
HalfDone(b, r, w) ==
  IF r.watch = "racing" THEN Add(Remove(b, r), [r EXCEPT !.watch = w])
  ELSE Settle(b, r)

\* the failure callback of a trigger issues its two writes without awaiting
\* either: this is the insert of OrderFailed
TriggerEventWritten(r) ==
  /\ r.watch \in {"racing", "wrote_order"}
  /\ Len(events) < cap.events
  /\ events' = Append(events, Event("OrderFailed", r.corr, ServiceName(Sender(r.stage)), ""))
  /\ inv' = HalfDone(inv, r, "wrote_event")
  /\ UNCHANGED <<apiVars, impl, seeded, order, keys, dlq, done, retried, sweep, dups, visited,
                 cap>>

\* and this the update of the order
TriggerOrderWritten(r) ==
  /\ r.watch \in {"racing", "wrote_event"}
  /\ LET o1 == UpdateOrder(order, "failed", r.stage) IN
     /\ order' = o1
     /\ visited' = Track(visited, o1)
  /\ inv' = HalfDone(inv, r, "wrote_order")
  /\ UNCHANGED <<apiVars, impl, seeded, events, keys, dlq, done, retried, sweep, dups, cap>>

\* the other write is rejected: the error is logged (edge) or unhandled
\* (server)
TriggerWriteLost(r) ==
  /\ r.watch \in {"wrote_event", "wrote_order"}
  /\ inv' = Settle(inv, r)
  /\ UNCHANGED <<apiVars, impl, seeded, order, events, keys, dlq, done, retried, sweep, dups,
                 visited, cap>>

\* the fetch of a request nobody waits for is rejected before the request
\* is delivered: createOrder and the retry only log the error
TriggerDropped(r) ==
  /\ r.pc = "sent"
  /\ r.watch = "none"
  /\ inv' = Remove(inv, r)
  /\ UNCHANGED <<apiVars, impl, seeded, order, events, keys, dlq, done, retried, sweep, dups, visited, cap>>

\* the transport delivers a request a second time
DuplicateDelivery(r) ==
  /\ dups < cap.dups
  /\ BagCardinality(inv) < cap.inv
  /\ r.pc # "done"
  /\ inv' = Add(inv, Invocation(r.stage, r.corr, "none"))
  /\ dups' = dups + 1
  /\ UNCHANGED <<apiVars, impl, seeded, order, events, keys, dlq, done, retried, sweep, visited, cap>>

----------------------------------------------------------------------------
(* Retry of a failed order *)

\* correlation id of the retry: the edge function makes a new one,
\* the server route reuses the one of the last event
RetryCorrelation(i, ev, n) ==
  IF i = "edge" THEN n + 1 ELSE ev[Len(ev)].corr

\* the order row a retry writes
RetryUpdate(i, o) ==
  IF i = "edge" THEN UpdateOrder(o, "processing", o.stage)
  ELSE UpdateOrder(o, "pending", "order")

\* the stage handler a retry triggers
RetryTarget(i, o) ==
  IF i = "edge" THEN o.stage ELSE "inventory"

\* the retry is rejected: nothing is written
RetryRejected(st) ==
  [ok |-> FALSE, order |-> st.order, events |-> st.events,
   inv |-> st.inv, retried |-> st.retried]

\* a retry that writes OrderRetried over the last event of the log
RetryOverwrites(i, st) ==
  LET c == RetryCorrelation(i, st.events, st.retried)
      tgt == RetryTarget(i, st.order)
  IN [ok |-> TRUE,
      order |-> RetryUpdate(i, st.order),
      events |-> [st.events EXCEPT ![Len(st.events)] = Event("OrderRetried", c, "retry-service", "")],
      inv |-> IF tgt \in Stages THEN Add(st.inv, Invocation(tgt, c, "none"))
              ELSE st.inv,
      retried |-> st.retried + 1]

\* the retry is accepted: OrderRetried is appended, the order row is reset
\* and the stage handler is triggered; a failure of the trigger is only logged
RetryAccepted(i, st) ==
  LET c == RetryCorrelation(i, st.events, st.retried)
      tgt == RetryTarget(i, st.order)
  IN [ok |-> TRUE,
      order |-> RetryUpdate(i, st.order),
      events |-> Append(st.events, Event("OrderRetried", c, "retry-service", "")),
      inv |-> IF tgt \in Stages THEN Add(st.inv, Invocation(tgt, c, "none"))
              ELSE st.inv,
      retried |-> st.retried + 1]

\* a retry that rejects only an order that does not exist
RetryUnlessMissing(i, st) ==
  IF st.order.status = "none" THEN RetryRejected(st) ELSE RetryAccepted(i, st)

\* retry-failed-order (edge) and POST /api/retry-order (server) on the
\* tables st = [order, events, inv, retried]; ok is the 2xx of the response
Retry(i, st) ==
  IF st.order.status # "failed" THEN RetryRejected(st) ELSE RetryAccepted(i, st)

Tables == [order |-> order, events |-> events, inv |-> inv, retried |-> retried]

\* room left for one more accepted retry
RetryFits ==
  order.status = "failed" => (Len(events) < cap.events /\ BagCardinality(inv) < cap.inv)

ApplyRetry(r) ==
  /\ order' = r.order
  /\ events' = r.events
  /\ inv' = r.inv
  /\ retried' = r.retried
  /\ visited' = Track(visited, r.order)

\* what a client sees of a rejected retry
RetryRejection ==
  [stage |-> "retry", corr |-> 0, outcome |-> "rejected", resp |-> "error",
   eventId |-> 0, existing |-> 0, produced |-> 0]

\* a call of the retry has read the order and found it failed: what it read
\* stays with it until it writes
RetryRead(o) == [stage |-> o.stage, corr |-> 0, pc |-> "retrying", watch |-> "none"]

\* the retry reads the order; its writes follow in a later step, so another
\* call can read the same failed order in between
RetryBegin ==
  /\ order.status = "failed"
  /\ BagCardinality(inv) < cap.inv
  /\ inv' = Add(inv, RetryRead(order))
  /\ UNCHANGED <<apiVars, impl, seeded, order, events, keys, dlq, done, retried, sweep, dups,
                 visited, cap>>

\* the writes of a retry that has read a failed order: the stage it triggers
\* is the one it read, the update applies to the row as it is now
RetryCommit(r) ==
  /\ r.pc = "retrying"
  /\ Len(events) < cap.events
  /\ LET a == RetryAccepted(impl, [order |-> [order EXCEPT !.stage = r.stage],
                                   events |-> events, inv |-> Remove(inv, r),
                                   retried |-> retried])
         o1 == RetryUpdate(impl, order)
     IN /\ events' = a.events
        /\ inv' = a.inv
        /\ retried' = a.retried
        /\ order' = o1
        /\ visited' = Track(visited, o1)
  /\ UNCHANGED <<apiVars, impl, seeded, keys, dlq, done, sweep, dups, cap>>

\* a client calls the retry
RetryOrder ==
  /\ RetryFits
  /\ LET r == Retry(impl, Tables) IN
     /\ ApplyRetry(r)
     /\ done' = IF r.ok THEN done ELSE done \cup {RetryRejection}
  /\ UNCHANGED <<apiVars, impl, seeded, keys, dlq, sweep, dups, cap>>

----------------------------------------------------------------------------
(* auto-retry sweep (edge functions only) *)

MAX_RETRY_ATTEMPTS == 3

BATCH_SIZE == 10

\* the cooldown the function declares; its cutoffTime is computed and never
\* added to the query
RETRY_COOLDOWN_MS == 60000

\* time passes between two steps of the sweeps: half a cooldown at a time
WaitMs == RETRY_COOLDOWN_MS \div 2

Wait ==
  /\ now.ms + WaitMs <= MaxWaits * WaitMs
  /\ now' = [now EXCEPT !.ms = @ + WaitMs]
  /\ UNCHANGED <<sagaVars, db, replies, diag, rb, sv>>

\* the auto-retry runs that may overlap
Sweepers == {"w1", "w2"}

Idle == [pc |-> "idle", items |-> <<>>, pos |-> 0]

\* positions of the rows the sweep selects, oldest first
RECURSIVE Eligible(_, _)
Eligible(q, j) ==
  IF j > Len(q) THEN <<>>
  ELSE IF q[j].status = "failed" /\ q[j].retry_count < MAX_RETRY_ATTEMPTS
       THEN <<[idx |-> j, retry_count |-> q[j].retry_count]>> \o Eligible(q, j + 1)
       ELSE Eligible(q, j + 1)

Limit(seq, n) == IF Len(seq) > n THEN SubSeq(seq, 1, n) ELSE seq

\* the loop moves on to the next row of its snapshot
Advance(sw) ==
  IF sw.pos >= Len(sw.items) THEN Idle
  ELSE [sw EXCEPT !.pc = "check", !.pos = sw.pos + 1]

SweepSelect(w) ==
  /\ impl = "edge"
  /\ sweep[w].pc = "idle"
  /\ LET items == Limit(Eligible(dlq, 1), BATCH_SIZE) IN
     /\ items # <<>>
     /\ sweep' = [sweep EXCEPT ![w] = [pc |-> "check", items |-> items, pos |-> 1]]
  /\ UNCHANGED <<apiVars, impl, seeded, order, events, keys, dlq, inv, done, retried, dups, visited, cap>>

\* a sweep that counts an attempt on every row it reaches
SweepCheckCounting(w) ==
  /\ sweep[w].pc = "check"
  /\ LET it == sweep[w].items[sweep[w].pos] IN
     /\ dlq' = [dlq EXCEPT ![it.idx].retry_count = it.retry_count + 1,
                            ![it.idx].last_retry_at = now.ms,
                            ![it.idx].status = IF order.status # "failed" THEN "resolved" ELSE @]
     /\ sweep' = [sweep EXCEPT ![w] = IF order.status # "failed" THEN Advance(@)
                                      ELSE [@ EXCEPT !.pc = "call"]]
  /\ UNCHANGED <<apiVars, impl, seeded, order, events, keys, inv, done, retried, dups, visited, cap>>

\* the order is read; a row whose order is not failed is marked resolved,
\* otherwise the row's retry_count is written from the snapshot
SweepCheck(w) ==
  /\ sweep[w].pc = "check"
  /\ LET it == sweep[w].items[sweep[w].pos] IN
     IF order.status # "failed"
     THEN /\ dlq' = [dlq EXCEPT ![it.idx].status = "resolved"]
          /\ sweep' = [sweep EXCEPT ![w] = Advance(@)]
     ELSE /\ dlq' = [dlq EXCEPT ![it.idx].retry_count = it.retry_count + 1,
                             ![it.idx].last_retry_at = now.ms]
          /\ sweep' = [sweep EXCEPT ![w].pc = "call"]
  /\ UNCHANGED <<apiVars, impl, seeded, order, events, keys, inv, done, retried, dups, visited, cap>>

\* the row's status after the retry answered
AfterRetryStatus(ok, newRetryCount, status) ==
  IF ~ok /\ newRetryCount >= MAX_RETRY_ATTEMPTS THEN "permanently_failed" ELSE status

SweepCall(w) ==
  /\ sweep[w].pc = "call"
  /\ RetryFits
  /\ LET it == sweep[w].items[sweep[w].pos]
         r == Retry(impl, Tables)
     IN
     /\ ApplyRetry(r)
     /\ dlq' = [dlq EXCEPT ![it.idx].status =
                  AfterRetryStatus(r.ok, it.retry_count + 1, @)]
  /\ sweep' = [sweep EXCEPT ![w] = Advance(@)]
  /\ UNCHANGED <<apiVars, impl, seeded, keys, done, dups, cap>>

----------------------------------------------------------------------------
(* replay-dlq (edge functions only) *)

\* the row a replay marks at time t
Replayed(row, t) == [row EXCEPT !.status = "replayed", !.replayed_at = t]

\* single item replay
ReplayItem(j) ==
  /\ impl = "edge"
  /\ IF dlq[j].status = "replayed"
     THEN UNCHANGED <<order, events, inv, retried, visited, dlq>>
     ELSE /\ RetryFits
          /\ LET r == Retry(impl, Tables) IN
             /\ ApplyRetry(r)
             /\ dlq' = IF r.ok THEN [dlq EXCEPT ![j] = Replayed(@, now.ms)] ELSE dlq
  /\ UNCHANGED <<apiVars, impl, seeded, keys, done, sweep, dups, cap>>

\* batch replay over the rows of status failed: st = [tables, dlq]
RECURSIVE ReplayRows(_, _)
ReplayRows(st, j) ==
  IF j > Len(st.dlq) THEN st
  ELSE IF st.dlq[j].status # "failed" THEN ReplayRows(st, j + 1)
  ELSE LET r == Retry("edge", st.tables) IN
       ReplayRows([tables |-> [order |-> r.order, events |-> r.events,
                                inv |-> r.inv, retried |-> r.retried],
                   dlq |-> IF r.ok THEN [st.dlq EXCEPT ![j] = Replayed(@, now.ms)]
                           ELSE st.dlq],
                  j + 1)

ReplayBatch ==
  /\ impl = "edge"
  /\ RetryFits
  /\ LET st == ReplayRows([tables |-> Tables, dlq |-> dlq], 1) IN
     /\ ApplyRetry(st.tables)
     /\ dlq' = st.dlq
  /\ UNCHANGED <<apiVars, impl, seeded, keys, done, sweep, dups, cap>>

----------------------------------------------------------------------------
(* createOrder across requests *)

\* digits of Date.now() an order id keeps: timestamp.toString().slice(-6)
IdDigits == 6

\* the clock advances by half the period after which those digits repeat;
\* ms counts from an instant that is a multiple of the period
Delta == (10 ^ IdDigits) \div 2

\* `ORD-${new Date().getFullYear()}-${timestamp.toString().slice(-6)}`
OrderId(t) == [year |-> t.year, suffix |-> t.ms % (10 ^ IdDigits)]

\* a response that carries no order id
NoId == [year |-> -1, suffix |-> -1]

\* request bodies: "" stands for a missing string
CustomerNames == {"", "alice"}

ProductNames == {"", "widget"}

Amounts == {0, 1}

GoodItem == [productName |-> "widget", quantity |-> 1, price |-> 1]

\* the good item, and the items with one defect
RequestItems ==
  {i \in [productName : ProductNames, quantity : Amounts, price : Amounts] :
     Cardinality({f \in {"productName", "quantity", "price"} : i[f] # GoodItem[f]}) <= 1}

ItemLists ==
  {<<>>} \cup {<<i>> : i \in RequestItems} \cup {<<GoodItem, i>> : i \in RequestItems}

\* the bodies with at most one defect
Requests ==
  {b \in [customerName : CustomerNames, items : ItemLists] :
     b.customerName = "" => b.items = <<GoodItem>>}

\* the first input check only
ValidHeader(body) ==
  ~(body.customerName = "" \/ Len(body.items) = 0)

\* the input checks of createOrder
ValidRequest(body) ==
  /\ ~(body.customerName = "" \/ Len(body.items) = 0)
  /\ \A k \in 1..Len(body.items) :
       ~(\/ body.items[k].productName = ""
         \/ body.items[k].quantity <= 0
         \/ body.items[k].price <= 0)

\* the key createOrder looks up: `create_order_${orderId}`
CheckedKey(id) == [etype |-> "create_order", orderId |-> id]

\* the key createOrder stores: the edge function stores the key it looks up,
\* the server stores `OrderCreated_${orderId}_${correlationId}`
StoredKey(i, id) ==
  [etype |-> IF i = "edge" THEN "create_order" ELSE "OrderCreated", orderId |-> id]

EmptyDb == [orders |-> {}, items |-> {}, events |-> <<>>, keys |-> {}, triggers |-> <<>>]

Reply(body, t, status, id) == [req |-> body, at |-> t, status |-> status, orderId |-> id]

\* one call of createOrder by implementation i with body `body` at time t on
\* tables d: the tables it leaves and the response.  The server route
\* triggers process-inventory whenever createOrder returns.
createOrder(i, body, t, d) ==
  LET id == OrderId(t) IN
  IF ~ValidRequest(body)
  THEN [db |-> d, reply |-> Reply(body, t, "rejected", NoId)]
  ELSE IF CheckedKey(id) \in d.keys
  THEN [db |-> IF i = "server" THEN [d EXCEPT !.triggers = Append(@, id)] ELSE d,
        reply |-> Reply(body, t, "already_created", id)]
  ELSE IF \E o \in d.orders : o.id = id
  THEN [db |-> d, reply |-> Reply(body, t, "error", NoId)]
  ELSE LET d1 == [d EXCEPT !.orders = @ \cup {[id |-> id, customerName |-> body.customerName]},
                           !.items = @ \cup {[orderId |-> id, items |-> body.items]}] IN
       IF ~SchemaOk(i)
       THEN [db |-> d1, reply |-> Reply(body, t, "error", NoId)]
       ELSE [db |-> [d1 EXCEPT !.events = Append(@, [type |-> "OrderCreated", orderId |-> id]),
                               !.keys = @ \cup {StoredKey(i, id)},
                               !.triggers = Append(@, id)],
             reply |-> Reply(body, t, "created", id)]

CreateCall(body) ==
  /\ Len(replies) < MaxCalls
  /\ LET r == createOrder(impl, body, now, db) IN
     /\ db' = r.db
     /\ replies' = Append(replies, r.reply)
  /\ UNCHANGED <<sagaVars, now, diag, rb, sv>>

\* time passes; y = 1 when a new year begins
Tick(y) ==
  /\ now.ms + Delta <= MaxTicks * Delta
  /\ now.year + y <= MaxYears
  /\ now' = [year |-> now.year + y, ms |-> now.ms + Delta]
  /\ UNCHANGED <<sagaVars, db, replies, diag, rb, sv>>

----------------------------------------------------------------------------
(* diagnose *)

\* an order counts as stuck after more than 30 s without an event: the edge
\* function compares whole seconds, the server milliseconds
StuckSeconds == 30

StuckMs == 30000

\* times since the last event, in ms
Elapsed == {0, StuckMs, StuckMs + 1, (StuckSeconds + 1) * 1000}

\* the time diagnose measures: the server takes 0 when the order has no event
TimeSinceLastEvent(i, ev, elapsed) ==
  IF i = "server" /\ Len(ev) = 0 THEN 0 ELSE elapsed

\* the time test only
StuckByTime(i, o, ms) ==
  IF i = "edge" THEN ms \div 1000 > StuckSeconds ELSE ms > StuckMs

IsStuck(i, o, ms) ==
  /\ o.status = "processing"
  /\ IF i = "edge" THEN ms \div 1000 > StuckSeconds ELSE ms > StuckMs

\* the edge function names the next step of every processing order, the
\* server of a stuck one
ExpectedNextStep(i, o, stuck) ==
  IF (i = "edge" /\ o.status = "processing") \/ (i = "server" /\ stuck)
  THEN CASE o.stage = "inventory" -> "payment"
         [] o.stage = "payment" -> "shipping"
         [] o.stage = "shipping" -> "completion"
         [] OTHER -> ""
  ELSE ""

NoReport == [found |-> FALSE, status |-> "none", stage |-> "none", isStuck |-> FALSE,
             expectedNextStep |-> ""]

\* the response of diagnose for order o with event log ev
diagnose(i, o, ev, elapsed) ==
  IF o.status = "none" THEN NoReport
  ELSE LET stuck == IsStuck(i, o, TimeSinceLastEvent(i, ev, elapsed)) IN
       [found |-> TRUE, status |-> o.status, stage |-> o.stage, isStuck |-> stuck,
        expectedNextStep |-> ExpectedNextStep(i, o, stuck)]

Diagnose(elapsed) ==
  /\ diag' = diagnose(impl, order, events, elapsed)
  /\ UNCHANGED <<sagaVars, now, db, replies, rb, sv>>

----------------------------------------------------------------------------
(* retryWithBackoff *)

\* DEFAULT_RETRY_OPTIONS
InitialDelayMs == 1000

MaxDelayMs == 30000

BackoffMultiplier == 2

\* the jitter is +-20 % of the delay
JitterPercent == 20

\* maxDelayMs of the unit test
TestMaxDelayMs == 1000

\* the options a run is given besides maxAttempts
Options ==
  [initialDelayMs : {InitialDelayMs}, maxDelayMs : {TestMaxDelayMs, MaxDelayMs},
   backoffMultiplier : {BackoffMultiplier}, jitter : BOOLEAN]

DefaultOptions ==
  [initialDelayMs |-> InitialDelayMs, maxDelayMs |-> MaxDelayMs,
   backoffMultiplier |-> BackoffMultiplier, jitter |-> TRUE]

\* the draws of Math.random(), in JitterSteps-ths
Draws == 0..(JitterSteps - 1)

\* the delay of the first attempt, whatever the attempt
InitialDelay(attempt, opts, j) ==
  IF opts.jitter
  THEN (opts.initialDelayMs * 100 * JitterSteps
        + opts.initialDelayMs * JitterPercent * (2 * j - JitterSteps)) \div (100 * JitterSteps)
  ELSE opts.initialDelayMs

\* calculateBackoffDelay with Math.random() = j / JitterSteps: the capped
\* exponential delay d, then d + d * 0.2 * (random * 2 - 1), rounded down
calculateBackoffDelay(attempt, opts, j) ==
  LET raw == opts.initialDelayMs * opts.backoffMultiplier ^ (attempt - 1)
      delay == IF raw > opts.maxDelayMs THEN opts.maxDelayMs ELSE raw
      jittered == IF opts.jitter
                  THEN (delay * 100 * JitterSteps
                        + delay * JitterPercent * (2 * j - JitterSteps))
                       \div (100 * JitterSteps)
                  ELSE delay
  IN IF jittered < 0 THEN 0 ELSE jittered

\* no run
NoRun == [n |-> 0, opts |-> DefaultOptions, script |-> <<>>, attempt |-> 1, calls |-> 0,
          lastError |-> 0, result |-> "idle", value |-> 0, retries |-> <<>>,
          delays |-> <<>>]

\* a run about to start: maxAttempts n, the other options, and whether each
\* call of fn succeeds; call k resolves with value k or rejects with error k.
\* retries are the calls of onRetry, delays the times slept.
Runs ==
  {[n |-> n, opts |-> o, script |-> sc, attempt |-> 1, calls |-> 0, lastError |-> 0,
    result |-> "running", value |-> 0, retries |-> <<>>, delays |-> <<>>] :
     n \in 0..MaxAttempts, o \in Options, sc \in [1..MaxAttempts -> BOOLEAN]}

\* onRetry is called after every failed attempt
AnyAttempt(r) == r.attempt <= r.n

\* if (attempt < opts.maxAttempts)
AnotherAttempt(r) == r.attempt < r.n

\* the loop ends one attempt early
ExhaustedEarly(r) == ~(r.attempt < r.n)

\* for (let attempt = 1; attempt <= opts.maxAttempts; attempt++)
Exhausted(r) == ~(r.attempt <= r.n)

\* one pass of the loop: fn is called; its value is returned, or its error
\* is kept and, before the last attempt, the delay is slept
Attempt(j) ==
  /\ rb.result = "running"
  /\ ~Exhausted(rb)
  /\ rb' = IF rb.script[rb.attempt]
           THEN [rb EXCEPT !.calls = @ + 1, !.result = "resolved", !.value = rb.attempt]
           ELSE IF AnotherAttempt(rb)
           THEN [rb EXCEPT !.calls = @ + 1, !.lastError = rb.attempt, !.attempt = @ + 1,
                           !.retries = Append(@, [attempt |-> rb.attempt,
                                                  error |-> rb.attempt]),
                           !.delays = Append(@, calculateBackoffDelay(rb.attempt, rb.opts, j))]
           ELSE [rb EXCEPT !.calls = @ + 1, !.lastError = rb.attempt, !.attempt = @ + 1]
  /\ UNCHANGED <<sagaVars, now, db, replies, diag, sv>>

\* throw lastError
GiveUp ==
  /\ rb.result = "running"
  /\ Exhausted(rb)
  /\ rb' = [rb EXCEPT !.result = "rejected"]
  /\ UNCHANGED <<sagaVars, now, db, replies, diag, sv>>

----------------------------------------------------------------------------

\* no call of the order API made yet
ApiIdle ==
  /\ now = [year |-> 0, ms |-> 0]
  /\ db = EmptyDb
  /\ replies = <<>>
  /\ diag = NoReport
  /\ rb = NoRun
  /\ sv = NoValidation

----------------------------------------------------------------------------

Init ==
  /\ impl \in Impls
  /\ seeded \in BOOLEAN
  /\ seeded => impl = "edge"
  /\ order = IF seeded THEN SeedOrder ELSE NoOrder
  /\ events = IF seeded THEN SeedEvents ELSE <<>>
  /\ keys = {}
  /\ dlq = <<>>
  /\ inv = EmptyBag
  /\ done = {}
  /\ retried = 0
  /\ sweep = [w \in {"w1"} |-> Idle]
  /\ dups = 0
  /\ visited = IF seeded THEN {"payment"} ELSE {}
  /\ cap = [inv |-> MaxInv, events |-> MaxEvents, dups |-> MaxDup]
  /\ ApiIdle

Next ==
  \/ CreateOrder
  \/ \E r \in InFlight : HandlerCheck(r)
  \/ \E r \in InFlight : HandlerSuccess(r)
  \/ \E r \in InFlight : HandlerFailure(r)
  \/ \E r \in InFlight : ResponseArrives(r)
  \/ \E r \in InFlight : TriggerFailed(r)
  \/ \E r \in InFlight : TriggerDropped(r)
  \/ \E r \in InFlight : DuplicateDelivery(r)
  \/ RetryOrder
  \/ \E w \in DOMAIN sweep : SweepSelect(w)
  \/ \E w \in DOMAIN sweep : SweepCheck(w)
  \/ \E w \in DOMAIN sweep : SweepCall(w)
  \/ \E j \in 1..Len(dlq) : ReplayItem(j)
  \/ ReplayBatch

Spec == Init /\ [][Next]_vars

\* the dead-letter queue of the seed order, followed for longer: overlapping
\* sweeps, one handler at a time, no redelivery
InitSweep ==
  /\ impl = "edge"
  /\ seeded = TRUE
  /\ order = SeedOrder
  /\ events = SeedEvents
  /\ keys = {}
  /\ dlq = <<>>
  /\ inv = EmptyBag
  /\ done = {}
  /\ retried = 0
  /\ sweep = [w \in Sweepers |-> Idle]
  /\ dups = 0
  /\ visited = {"payment"}
  /\ cap = [inv |-> 1, events |-> MaxSweepEvents, dups |-> 0]
  /\ ApiIdle

NextSweep ==
  \/ \E r \in InFlight : HandlerCheck(r)
  \/ \E r \in InFlight : HandlerSuccess(r)
  \/ \E r \in InFlight : HandlerFailure(r)
  \/ \E r \in InFlight : ResponseArrives(r)
  \/ \E r \in InFlight : TriggerFailed(r)
  \/ \E r \in InFlight : TriggerDropped(r)
  \/ RetryOrder
  \/ \E w \in DOMAIN sweep : SweepSelect(w)
  \/ \E w \in DOMAIN sweep : SweepCheck(w)
  \/ \E w \in DOMAIN sweep : SweepCall(w)
  \/ \E j \in 1..Len(dlq) : ReplayItem(j)
  \/ ReplayBatch

SpecSweep == InitSweep /\ [][NextSweep]_vars

\* the same, followed for longer still, with one sweep at a time
InitLong ==
  /\ impl = "edge"
  /\ seeded = TRUE
  /\ order = SeedOrder
  /\ events = SeedEvents
  /\ keys = {}
  /\ dlq = <<>>
  /\ inv = EmptyBag
  /\ done = {}
  /\ retried = 0
  /\ sweep = [w \in {"w1"} |-> Idle]
  /\ dups = 0
  /\ visited = {"payment"}
  /\ cap = [inv |-> 1, events |-> MaxLongEvents, dups |-> 0]
  /\ ApiIdle

SpecLong == InitLong /\ [][NextSweep]_vars

\* the sweep, one run at a time, while time passes
InitCooldown ==
  /\ impl = "edge"
  /\ seeded = TRUE
  /\ order = SeedOrder
  /\ events = SeedEvents
  /\ keys = {}
  /\ dlq = <<>>
  /\ inv = EmptyBag
  /\ done = {}
  /\ retried = 0
  /\ sweep = [w \in {"w1"} |-> Idle]
  /\ dups = 0
  /\ visited = {"payment"}
  /\ cap = [inv |-> 1, events |-> MaxSweepEvents, dups |-> 0]
  /\ ApiIdle

NextCooldown ==
  \/ \E r \in InFlight : HandlerCheck(r)
  \/ \E r \in InFlight : HandlerSuccess(r)
  \/ \E r \in InFlight : HandlerFailure(r)
  \/ \E r \in InFlight : ResponseArrives(r)
  \/ \E r \in InFlight : TriggerFailed(r)
  \/ \E r \in InFlight : TriggerDropped(r)
  \/ RetryOrder
  \/ \E w \in DOMAIN sweep : SweepSelect(w)
  \/ \E w \in DOMAIN sweep : SweepCheck(w)
  \/ \E w \in DOMAIN sweep : SweepCall(w)
  \/ Wait

SpecCooldown == InitCooldown /\ [][NextCooldown]_vars

\* every handler that was started runs to its end, and every promise a
\* sender waits on is settled by the response or by the timeout
Fairness ==
  /\ WF_vars(\E r \in InFlight : HandlerCheck(r))
  /\ WF_vars(\E r \in InFlight : HandlerSuccess(r) \/ HandlerFailure(r))
  /\ WF_vars(\E r \in InFlight : ResponseArrives(r) \/ TriggerFailed(r))

FairSpec == Init /\ [][Next]_vars /\ Fairness

\* createOrder called with any bodies at any times, before any handler runs
InitCreate ==
  /\ Init
  /\ ~seeded

NextCreate ==
  \/ \E body \in Requests : CreateCall(body)
  \/ \E y \in {0, 1} : Tick(y)

SpecCreate == InitCreate /\ [][NextCreate]_vars

\* the saga with calls of the retry that overlap, without redelivery
InitRace ==
  /\ impl \in Impls
  /\ seeded \in BOOLEAN
  /\ seeded => impl = "edge"
  /\ order = IF seeded THEN SeedOrder ELSE NoOrder
  /\ events = IF seeded THEN SeedEvents ELSE <<>>
  /\ keys = {}
  /\ dlq = <<>>
  /\ inv = EmptyBag
  /\ done = {}
  /\ retried = 0
  /\ sweep = [w \in {"w1"} |-> Idle]
  /\ dups = 0
  /\ visited = IF seeded THEN {"payment"} ELSE {}
  /\ cap = [inv |-> MaxInv, events |-> MaxEvents, dups |-> 0]
  /\ ApiIdle

NextRace ==
  \/ CreateOrder
  \/ \E r \in InFlight : HandlerCheck(r)
  \/ \E r \in InFlight : HandlerSuccess(r)
  \/ \E r \in InFlight : HandlerFailure(r)
  \/ \E r \in InFlight : ResponseArrives(r)
  \/ \E r \in InFlight : TriggerFailed(r)
  \/ \E r \in InFlight : TriggerDropped(r)
  \/ RetryBegin
  \/ \E r \in InFlight : RetryCommit(r)

SpecRace == InitRace /\ [][NextRace]_vars

\* the saga with one handler at a time and no redelivery, diagnosed at any
\* moment
InitDiag ==
  /\ impl \in Impls
  /\ seeded \in BOOLEAN
  /\ seeded => impl = "edge"
  /\ order = IF seeded THEN SeedOrder ELSE NoOrder
  /\ events = IF seeded THEN SeedEvents ELSE <<>>
  /\ keys = {}
  /\ dlq = <<>>
  /\ inv = EmptyBag
  /\ done = {}
  /\ retried = 0
  /\ sweep = [w \in {"w1"} |-> Idle]
  /\ dups = 0
  /\ visited = IF seeded THEN {"payment"} ELSE {}
  /\ cap = [inv |-> 1, events |-> MaxEvents, dups |-> 0]
  /\ ApiIdle

NextDiag ==
  \/ CreateOrder
  \/ \E r \in InFlight : HandlerCheck(r)
  \/ \E r \in InFlight : HandlerSuccess(r)
  \/ \E r \in InFlight : HandlerFailure(r)
  \/ \E r \in InFlight : ResponseArrives(r)
  \/ \E r \in InFlight : TriggerFailed(r)
  \/ \E r \in InFlight : TriggerDropped(r)
  \/ RetryOrder
  \/ \E elapsed \in Elapsed : Diagnose(elapsed)

SpecDiag == InitDiag /\ [][NextDiag]_vars

\* the saga while the idempotency-key store may be unavailable
NextOutage ==
  \/ CreateOrder
  \/ \E r \in InFlight : HandlerCheck(r)
  \/ \E r \in InFlight : HandlerCheckFails(r)
  \/ \E r \in InFlight : HandlerSuccess(r)
  \/ \E r \in InFlight : HandlerFailure(r)
  \/ \E r \in InFlight : ResponseArrives(r)
  \/ \E r \in InFlight : TriggerFailed(r)
  \/ \E r \in InFlight : TriggerDropped(r)
  \/ RetryOrder

SpecOutage == InitDiag /\ [][NextOutage]_vars

\* the saga with the two writes of the failure callbacks as separate steps
NextSplit ==
  \/ CreateOrder
  \/ \E r \in InFlight : HandlerCheck(r)
  \/ \E r \in InFlight : HandlerSuccess(r)
  \/ \E r \in InFlight : HandlerFailure(r)
  \/ \E r \in InFlight : ResponseArrives(r)
  \/ \E r \in InFlight : TriggerEventWritten(r)
  \/ \E r \in InFlight : TriggerOrderWritten(r)
  \/ \E r \in InFlight : TriggerWriteLost(r)
  \/ \E r \in InFlight : TriggerDropped(r)
  \/ RetryOrder

SpecSplit == InitDiag /\ [][NextSplit]_vars

\* retryWithBackoff run on every maxAttempts and every course of fn
InitRetry ==
  /\ impl = "edge"
  /\ seeded = FALSE
  /\ order = NoOrder
  /\ events = <<>>
  /\ keys = {}
  /\ dlq = <<>>
  /\ inv = EmptyBag
  /\ done = {}
  /\ retried = 0
  /\ sweep = [w \in {"w1"} |-> Idle]
  /\ dups = 0
  /\ visited = {}
  /\ cap = [inv |-> MaxInv, events |-> MaxEvents, dups |-> MaxDup]
  /\ now = [year |-> 0, ms |-> 0]
  /\ db = EmptyDb
  /\ replies = <<>>
  /\ diag = NoReport
  /\ rb \in Runs
  /\ sv = NoValidation

NextRetry ==
  \/ \E j \in Draws : Attempt(j)
  \/ GiveUp

SpecRetry == InitRetry /\ [][NextRetry]_vars

\* validateEventSchema called on every event type, payload and version
InitSchema ==
  /\ impl = "edge"
  /\ seeded = FALSE
  /\ order = NoOrder
  /\ events = <<>>
  /\ keys = {}
  /\ dlq = <<>>
  /\ inv = EmptyBag
  /\ done = {}
  /\ retried = 0
  /\ sweep = [w \in {"w1"} |-> Idle]
  /\ dups = 0
  /\ visited = {}
  /\ cap = [inv |-> MaxInv, events |-> MaxEvents, dups |-> MaxDup]
  /\ now = [year |-> 0, ms |-> 0]
  /\ db = EmptyDb
  /\ replies = <<>>
  /\ diag = NoReport
  /\ rb = NoRun
  /\ sv \in Validations

NextSchema == Validate

SpecSchema == InitSchema /\ [][NextSchema]_vars

----------------------------------------------------------------------------
(* Properties *)

\* positions of the events of type t and correlation id c in log ev
EventsOf(ev, t, c) == {k \in 1..Len(ev) : ev[k].type = t /\ ev[k].corr = c}

KeysOf(ks, t, c) == {k \in ks : k.etype = t /\ k.corr = c}

\* the outcomes of the handler of stage s for correlation id c
OutcomesOf(ds, s, c, out) ==
  {d \in ds : d.stage = s /\ d.corr = c /\ d.outcome = out}

\* the invocations of stage s for correlation id c that have not returned
Running(b, s, c) ==
  {x \in BagToSet(b) : x.stage = s /\ x.corr = c /\ x.pc # "done"}

\* r is invoked after exactly one invocation for the same order and
\* correlation id returned with success, and nothing else runs for them
SecondInvocation(r) ==
  /\ r.pc = "sent"
  /\ CopiesIn(r, inv) = 1
  /\ Running(inv, r.stage, r.corr) = {r}
  /\ Cardinality(OutcomesOf(done, r.stage, r.corr, "success")) = 1

Corrs == {events[k].corr : k \in 1..Len(events)}

\* C2: for two concurrent invocations of one stage handler with the same order
\* and correlation id, at most one success event of the type is appended for
\* the triple and at most one of them returns with success, so the next stage
\* is triggered at most once.
C2_AtMostOneReservation ==
  \A s \in Stages : \A c \in Corrs :
    /\ Cardinality(EventsOf(events, SuccessType(s), c)) <= 1
    /\ Cardinality(OutcomesOf(done, s, c, "success")) <= 1

\* C3: in every reachable state a completed order is at stage completed and a
\* failed order is at one of the stages inventory, payment, shipping.
C3_StatusStageAgree ==
  /\ order.status = "completed" => order.stage = "completed"
  /\ order.status = "failed" => order.stage \in Stages

\* position of a stage in the pipeline
RECURSIVE Rank(_, _)
Rank(sg, k) ==
  IF k > Len(AllStages) THEN 0
  ELSE IF AllStages[k] = sg THEN k ELSE Rank(sg, k + 1)

HasEvent(t) == \E k \in 1..Len(events) : events[k].type = t

\* inventory, payment and shipping all succeeded and nothing failed
SuccessPath ==
  /\ HasEvent("InventoryReserved") /\ HasEvent("PaymentAuthorized")
  /\ HasEvent("OrderShipped")
  /\ ~HasEvent("InventoryFailed") /\ ~HasEvent("PaymentFailed")
  /\ ~HasEvent("OrderFailed")

\* C4: without retries the stage of an order only moves forward along
\* order, inventory, payment, shipping, completed, and on a path where the
\* three stages all succeed the order has taken every one of the five stages.
C4_MonotonicProgression ==
  /\ []((retried = 0 /\ ~seeded /\ SuccessPath) =>
          visited = {AllStages[k] : k \in 1..Len(AllStages)})
  /\ [][(retried' = 0 /\ order.status # "none") =>
          Rank(order'.stage, 1) >= Rank(order.stage, 1)]_vars

\* the compensation a failure at stage s calls for
RequiredCompensation(s) ==
  CASE s = "payment"  -> "release_inventory"
    [] s = "shipping" -> "refund_payment_and_release_inventory"

\* log ev holds a CompensationStarted event of correlation id c with action a
Compensated(ev, c, a) ==
  \E k \in 1..Len(ev) :
    /\ ev[k].type = "CompensationStarted"
    /\ ev[k].corr = c
    /\ ev[k].action = a

\* C5: when a handler fails the order at stage payment or shipping, the log
\* holds a CompensationStarted event whose action covers the stages that had
\* succeeded: release_inventory at payment, refund of the payment plus
\* release of the inventory at shipping.
C5_CompensationComplete ==
  [][\A r \in InFlight :
       (HandlerFailure(r) /\ r.stage \in {"payment", "shipping"}) =>
         Compensated(events', r.corr, RequiredCompensation(r.stage))
    ]_vars

\* the dead-letter row sweeper w is working on
SweepRow(w) == sweep[w].items[sweep[w].pos].idx

\* C6: retry_count never exceeds max_retries (3), and once a dead-letter
\* entry is permanently_failed no sweep writes its retry_count or has a
\* retry accepted for it again.
C6_BoundedRetries ==
  /\ [](\A j \in 1..Len(dlq) : dlq[j].retry_count <= MAX_RETRY_ATTEMPTS)
  /\ [][\A w \in DOMAIN sweep :
          ( /\ sweep[w].pc \in {"check", "call"}
            /\ dlq[SweepRow(w)].status = "permanently_failed"
            /\ SweepCheck(w) \/ SweepCall(w) ) =>
            /\ dlq'[SweepRow(w)] = dlq[SweepRow(w)]
            /\ retried' = retried
       ]_vars

\* no sweep is between writing the retry_count of row j and marking it
Settled(j) ==
  \A w \in DOMAIN sweep : sweep[w].pc = "call" => SweepRow(w) # j

\* C7: when the stage keeps failing, a dead-letter entry whose retry_count
\* has reached max_retries (3) is permanently_failed once the sweep is done
\* with it, and the order is failed at the stage it failed at.
C7_ExhaustedIsPermanentlyFailed ==
  \A j \in 1..Len(dlq) :
    ( /\ dlq[j].retry_count >= MAX_RETRY_ATTEMPTS
      /\ Settled(j)
      /\ dlq[j].status \notin {"replayed", "resolved"}
      /\ ~HasEvent("PaymentAuthorized")
      /\ inv = EmptyBag ) =>
      /\ dlq[j].status = "permanently_failed"
      /\ order = [status |-> "failed", stage |-> "payment"]

\* C8: replaying a dead-letter entry whose status is replayed or resolved is
\* a no-op: no retry is made, no event appended, and the entry and the order
\* stay as they are.
C8_ReplayOfSettledIsNoOp ==
  [][\A j \in 1..Len(dlq) :
       (dlq[j].status \in {"replayed", "resolved"} /\ ReplayItem(j)) =>
         UNCHANGED <<order, events, dlq, inv, retried>>
    ]_vars

Types(ev) == [k \in 1..Len(ev) |-> ev[k].type]

\* createOrder was called, nothing was redelivered or retried, no stage
\* failed, no trigger failed, and every handler has returned
CleanRun ==
  /\ ~seeded
  /\ order.status # "none"
  /\ dups = 0 /\ retried = 0
  /\ \A k \in 1..Len(events) :
       events[k].type \notin {"InventoryFailed", "PaymentFailed", "OrderFailed"}
  /\ inv = EmptyBag

\* C9: when createOrder is called with a valid request and inventory, payment
\* and shipping all succeed, the order ends completed at stage completed and
\* its log is exactly OrderCreated, InventoryReserved, PaymentAuthorized,
\* OrderShipped.
C9_ScenarioA ==
  CleanRun =>
    /\ order = [status |-> "completed", stage |-> "completed"]
    /\ Types(events) =
         <<"OrderCreated", "InventoryReserved", "PaymentAuthorized", "OrderShipped">>

\* C10: when the payment handler rejects an order whose inventory was
\* reserved, the order is failed at payment, the log holds PaymentFailed
\* followed by CompensationStarted with action release_inventory, and the
\* order has exactly one dead-letter entry, of retry_count 0.
C10_ScenarioB ==
  [][\A r \in InFlight :
       ( /\ r.stage = "payment"
         /\ HasEvent("InventoryReserved")
         /\ dlq = <<>>
         /\ HandlerFailure(r) ) =>
         /\ order' = [status |-> "failed", stage |-> "payment"]
         /\ \E i, j \in 1..Len(events') :
              /\ i < j
              /\ events'[i].type = "PaymentFailed" /\ events'[i].corr = r.corr
              /\ events'[j].type = "CompensationStarted"
              /\ events'[j].corr = r.corr
              /\ events'[j].action = "release_inventory"
         /\ Len(dlq') = 1
         /\ dlq'[1].retry_count = 0
    ]_vars

\* the order was failed at payment when the event at position k was appended
FailedAtPaymentBefore(k) ==
  \E j \in 1..(k - 1) :
    /\ events[j].type = "PaymentFailed"
    /\ \A m \in (j + 1)..(k - 1) : events[m].type = "CompensationStarted"

\* nothing failed after position k of the log
NoFailureAfter(k) ==
  \A m \in (k + 1)..Len(events) :
    events[m].type \notin
      {"InventoryFailed", "PaymentFailed", "OrderFailed", "CompensationStarted"}

\* C11: when an order failed at payment is retried once and no stage fails
\* afterwards, then once every handler has returned the log ends with
\* OrderRetried, PaymentAuthorized, OrderShipped, appended after the events
\* that were there, and the order is completed.
C11_ScenarioC ==
  \A k \in 1..Len(events) :
    ( /\ events[k].type = "OrderRetried"
      /\ FailedAtPaymentBefore(k)
      /\ NoFailureAfter(k)
      /\ retried = 1 /\ dups = 0
      /\ inv = EmptyBag ) =>
      /\ SubSeq(Types(events), k, Len(events)) =
           <<"OrderRetried", "PaymentAuthorized", "OrderShipped">>
      /\ order = [status |-> "completed", stage |-> "completed"]

\* C12: a retry of an order that does not exist or is not failed is rejected
\* and leaves the order, the log, the keys and the dead-letter queue as they
\* are: no OrderRetried event, no stage handler invoked.
C12_RejectedRetryChangesNothing ==
  [][(order.status # "failed" /\ RetryOrder) =>
       /\ UNCHANGED <<order, events, keys, dlq, inv, retried>>
       /\ RetryRejection \in done'
    ]_vars

\* a retry was rejected for an order that is in the pipeline
C12_Witness ==
  /\ RetryRejection \in done
  /\ order.status \in {"pending", "processing", "completed"}

\* the step appends an OrderRetried event: a retry was accepted
RetryAcceptedStep ==
  /\ Len(events') = Len(events) + 1
  /\ events'[Len(events')].type = "OrderRetried"

\* C13: an accepted retry of an order failed at stage S invokes the handler
\* of S and no other: the one request it sends is for the stage the order
\* failed at, so no handler of an earlier stage is invoked.
C13_RetryInvokesFailedStageOnly ==
  [][RetryAcceptedStep =>
       \E x \in BagToSet(inv') :
         /\ inv' = Add(inv, x)
         /\ x.pc = "sent"
         /\ x.stage = order.stage
    ]_vars

\* the run has reached a bound of the exploration
AtCap ==
  \/ Len(events) >= cap.events
  \/ BagCardinality(inv) >= cap.inv

\* C14: under fairness of the handlers, the promise callbacks and the
\* timeouts, an order that was created or retried and is pending or
\* processing eventually becomes completed or failed.
C14_EventuallySettled ==
  (order.status \in {"pending", "processing"} /\ Len(events) > 0)
    ~> (order.status \in {"completed", "failed"} \/ AtCap)

RECURSIVE SumRetryCount(_, _)
SumRetryCount(q, j) ==
  IF j > Len(q) THEN 0 ELSE q[j].retry_count + SumRetryCount(q, j + 1)

\* the sweeps that wrote a retry_count and have not called the retry yet
Calling == {w \in DOMAIN sweep : sweep[w].pc = "call"}

\* the retries of the order the sweep has invoked: every attempt adds one to
\* the retry_count of a row before the retry is called
SweepAttempts == SumRetryCount(dlq, 1) - Cardinality(Calling)

\* C15: the sweep invokes the retry of an order at most max_retries (3)
\* times, also when every retried stage attempt fails again.
C15_SweepBoundedPerOrder == SweepAttempts <= MAX_RETRY_ATTEMPTS

\* pairs of calls made so far, the earlier first
CallPairs == {p \in (1..Len(replies)) \X (1..Len(replies)) : p[1] < p[2]}

\* C16: createOrder is idempotent: when the same request is sent twice,
\* exactly one order row and one OrderCreated event exist afterwards and
\* both calls return the same order id.
C16_CreateOrderIdempotent ==
  (/\ Len(replies) = 2
   /\ replies[1].req = replies[2].req
   /\ ValidRequest(replies[1].req))
  => /\ Cardinality(db.orders) = 1
     /\ Len(db.events) = 1
     /\ replies[1].orderId # NoId
     /\ replies[1].orderId = replies[2].orderId

\* C17: order ids are globally unique: two calls for different requests
\* obtain different order ids, even when they run at different instants.
C17_OrderIdsUnique ==
  \A p \in CallPairs :
    (/\ replies[p[1]].req # replies[p[2]].req
     /\ replies[p[1]].at # replies[p[2]].at
     /\ ValidRequest(replies[p[1]].req)
     /\ ValidRequest(replies[p[2]].req))
    => OrderId(replies[p[1]].at) # OrderId(replies[p[2]].at)

\* a malformed request: the customer name is missing, the items are empty,
\* or an item lacks its product name or has a quantity or price <= 0
Malformed(body) ==
  \/ body.customerName = ""
  \/ body.items = <<>>
  \/ \E k \in 1..Len(body.items) :
       \/ body.items[k].productName = ""
       \/ body.items[k].quantity <= 0
       \/ body.items[k].price <= 0

\* C18: a malformed createOrder request is rejected at the boundary: the
\* call writes no order row, order item, event or idempotency key, triggers
\* no stage handler and leaves the saga untouched.
C18_MalformedRejected ==
  [][\A body \in Requests :
       (Malformed(body) /\ CreateCall(body))
       => /\ db' = db
          /\ UNCHANGED <<order, events, keys, dlq, inv>>
          /\ replies'[Len(replies')].status = "rejected"]_vars

\* a request whose only defect is in its second item was rejected after an
\* order had been created
C18_Witness ==
  \E p \in CallPairs :
    /\ replies[p[1]].status \in {"created", "error"}
    /\ db.orders # {}
    /\ replies[p[2]].status = "rejected"
    /\ ValidHeader(replies[p[2]].req)
    /\ Len(replies[p[2]].req.items) = 2

\* C19: diagnose never mutates: a call leaves the order, the event log, the
\* idempotency keys and the dead-letter queue as they were, and it reports
\* isStuck only for an order whose status is processing.
C19_DiagnoseReadOnly ==
  [][\A elapsed \in Elapsed :
       Diagnose(elapsed)
       => /\ UNCHANGED <<order, events, keys, dlq>>
          /\ diag'.isStuck => order.status = "processing"]_vars

\* a processing order was reported stuck
C19_Witness ==
  /\ diag.isStuck
  /\ diag.status = "processing"
  /\ order.status = "processing"

\* position of the first call of fn that succeeds among the first n, or 0
FirstSuccess(r) ==
  IF \E k \in 1..r.n : r.script[k]
  THEN CHOOSE k \in 1..r.n : r.script[k] /\ \A j \in 1..(k - 1) : ~r.script[j]
  ELSE 0

\* C20: retryWithBackoff(fn, {maxAttempts: n}) calls fn until its first
\* success and at most n times: when call k <= n is the first to succeed it
\* returns that call's value after exactly k calls, and when all n calls
\* fail it rejects with the error of call n after exactly n calls.
C20_RetryWithBackoff ==
  rb.n >= 1 =>
    /\ rb.calls <= rb.n
    /\ FirstSuccess(rb) # 0 => rb.calls <= FirstSuccess(rb)
    /\ rb.result = "resolved"
       => /\ FirstSuccess(rb) # 0
          /\ rb.calls = FirstSuccess(rb)
          /\ rb.value = FirstSuccess(rb)
    /\ rb.result = "rejected"
       => /\ FirstSuccess(rb) = 0
          /\ rb.calls = rb.n
          /\ rb.lastError = rb.n

\* the second of three attempts succeeded
C20_Witness ==
  /\ rb.result = "resolved"
  /\ rb.n = 3
  /\ rb.calls = 2
  /\ ~rb.script[1]

\* calls of fn that failed so far
FailedCalls(r) == IF r.result = "resolved" THEN r.calls - 1 ELSE r.calls

\* C21: retryWithBackoff calls onRetry exactly once for every failed
\* attempt that is followed by another attempt, with the number of that
\* attempt and its error, and never for a failed final attempt or after a
\* success.
C21_OnRetryPerFailedAttempt ==
  rb.n >= 1 =>
    /\ Len(rb.retries) = IF FailedCalls(rb) < rb.n THEN FailedCalls(rb) ELSE rb.n - 1
    /\ \A k \in 1..Len(rb.retries) :
         /\ rb.retries[k] = [attempt |-> k, error |-> k]
         /\ ~rb.script[k]

\* all three attempts failed: onRetry was called for the first two only
C21_Witness ==
  /\ rb.result = "rejected"
  /\ rb.n = 3
  /\ Len(rb.retries) = 2

\* C22: calculateBackoffDelay never returns more than options.maxDelayMs,
\* whatever the attempt and the jitter draw.
C22_DelayWithinMax ==
  \A k \in 1..Len(rb.delays) : rb.delays[k] <= rb.opts.maxDelayMs

\* C23: with DEFAULT_RETRY_OPTIONS the delays of attempts 1, 2, 3 are
\* positive and strictly increasing, whatever the jitter draws.
C23_DefaultDelaysIncrease ==
  rb.opts = DefaultOptions =>
    /\ \A k \in 1..Len(rb.delays) : rb.delays[k] > 0
    /\ \A k \in 1..(Len(rb.delays) - 1) : k < 3 => rb.delays[k] < rb.delays[k + 1]

\* three delays were drawn under the default options, the first with the
\* largest jitter and the second with the smallest
C23_Witness ==
  /\ rb.opts = DefaultOptions
  /\ Len(rb.delays) = 3
  /\ rb.delays[1] > InitialDelayMs
  /\ rb.delays[2] < InitialDelayMs * BackoffMultiplier

\* entries of the schema of the validated event type that are not marked
\* optional by a '?'
RequiredEntries(v) ==
  LET sc == EVENT_SCHEMAS[v.eventType].schema IN
  {sc[k] : k \in {j \in 1..Len(sc) : ~sc[j].keyMark /\ ~sc[j].typeMark}}

\* the version is the registered one and every required field is present
\* with its declared type
Conforms(v) ==
  /\ v.version = EVENT_SCHEMAS[v.eventType].version
  /\ \A e \in RequiredEntries(v) :
       e.key \in DOMAIN v.payload /\ v.payload[e.key] = e.type

\* C24: validateEventSchema returns valid = true exactly when the version is
\* the registered one and every field not marked optional ('?') is present
\* with the declared type; a version mismatch yields a 'Version mismatch'
\* error, a missing required field a non-empty error list.
C24_ValidExactlyWhenConforming ==
  (sv.result # NoResult /\ sv.eventType \in DOMAIN EVENT_SCHEMAS) =>
    /\ sv.result.valid <=> Conforms(sv)
    /\ sv.version # EVENT_SCHEMAS[sv.eventType].version
       => /\ ~sv.result.valid
          /\ \E k \in 1..Len(sv.result.errors) : sv.result.errors[k].kind = "Version mismatch"
    /\ (\E e \in RequiredEntries(sv) : e.key \notin DOMAIN sv.payload)
       => ~sv.result.valid /\ Len(sv.result.errors) > 0

\* event types that record a failure of the order
FailureTypes == {FailureType(s) : s \in Stages} \cup {"OrderFailed"}

\* pairs of retries that raced: two OrderRetried events with no failure
\* recorded between them, so both were accepted on the same failure
RacedRetries ==
  {p \in (1..Len(events)) \X (1..Len(events)) :
     /\ p[1] < p[2]
     /\ events[p[1]].type = "OrderRetried"
     /\ events[p[2]].type = "OrderRetried"
     /\ \A m \in (p[1] + 1)..(p[2] - 1) : events[m].type \notin FailureTypes}

\* C25: when two retries of the same failed order race, only one of them
\* executes the stage: under the correlation ids of the two retries every
\* stage's success event is appended at most once.
C25_RacingRetriesRunStageOnce ==
  \A p \in RacedRetries : \A s \in Stages :
    Cardinality({m \in (p[1] + 1)..Len(events) :
                   /\ events[m].type = SuccessType(s)
                   /\ events[m].corr \in {events[p[1]].corr, events[p[2]].corr}}) <= 1

\* C26: when the idempotency-key store is unavailable during the check of a
\* stage handler, the attempt is aborted: it appends no event, leaves the
\* order as it is and triggers no next stage.
C26_FailClosedOnStoreError ==
  [][\A r \in InFlight :
       (r.pc = "blind" /\ (HandlerSuccess(r) \/ HandlerFailure(r)))
       => /\ UNCHANGED <<order, events>>
          /\ \A x \in BagToSet(inv') : x \in BagToSet(inv)]_vars

\* C27: every stage attempt that ends in a failure, the failure of a
\* trigger included, creates a dead-letter entry: an order the handlers
\* have marked failed has at least one dead-letter entry.
C27_FailedOrderHasDeadLetter ==
  (order.status = "failed" /\ (~seeded \/ retried > 0)) => Len(dlq) >= 1

\* C28: when the call that starts the next stage fails, OrderFailed is
\* appended and the order becomes failed at the next stage, and the two
\* happen together: no step of the failure callback does one without the
\* other.
C28_TriggerFailureWritesTogether ==
  [][\A r \in InFlight :
       (TriggerEventWritten(r) \/ TriggerOrderWritten(r))
       => /\ Len(events') = Len(events) + 1
          /\ events'[Len(events')].type = "OrderFailed"
          /\ order' = [status |-> "failed", stage |-> r.stage]]_vars

\* C29: CompensationStarted is appended only as part of a domain failure at
\* payment or shipping: every step that appends one is the failure path of
\* the payment or the shipping handler, so neither an inventory failure nor
\* the failure of a trigger appends it.
C29_CompensationOnlyOnDomainFailure ==
  [][\A k \in (Len(events) + 1)..Len(events') :
       events'[k].type = "CompensationStarted"
       => \E r \in InFlight : r.stage \in {"payment", "shipping"} /\ HandlerFailure(r)]_vars

\* a compensation is in the log of an order that also had an inventory
\* failure or a failed trigger
C29_Witness ==
  /\ \E k \in 1..Len(events) : events[k].type = "CompensationStarted"
  /\ \E m \in 1..Len(events) : events[m].type \in {"InventoryFailed", "OrderFailed"}

\* C30: once the trigger timeout has abandoned an invocation and marked the
\* order failed, the invocation cannot apply later: its completion appends
\* no event and leaves the order's status and stage alone, whether or not a
\* retry is running.
C30_AbandonedInvocationInert ==
  [][\A r \in InFlight :
       (impl = "edge" /\ r.watch = "settled" /\ (HandlerSuccess(r) \/ HandlerFailure(r)))
       => (events' = events /\ order' = order)]_vars

\* an event of type t stands in the log before position k
Earlier(t, k) == \E m \in 1..(k - 1) : events[m].type = t

\* C31: the events of the order are appended in causal order: a
\* CompensationStarted event comes after the failure event of the same
\* attempt, OrderShipped after a PaymentAuthorized and PaymentAuthorized
\* after an InventoryReserved.
C31_CausalOrder ==
  \A k \in 1..Len(events) :
    /\ events[k].type = "CompensationStarted"
       => \E m \in 1..(k - 1) : /\ events[m].type \in FailureTypes
                                /\ events[m].corr = events[k].corr
    /\ events[k].type = "OrderShipped" => Earlier("PaymentAuthorized", k)
    /\ events[k].type = "PaymentAuthorized" => Earlier("InventoryReserved", k)

\* the stage an OrderFailed event names: the stage of the shipping handler
\* that failed, or the stage the sender could not start
FailedStage(e) ==
  IF e.svc = "shipping-service" THEN "shipping"
  ELSE NextStage(CHOOSE s \in Stages : ServiceName(s) = e.svc)

\* the transition of the saga an event records
Transition(o, e) ==
  CASE e.type = "OrderCreated"      -> [status |-> "pending", stage |-> "order"]
    [] e.type = "InventoryReserved" -> [status |-> "processing", stage |-> "payment"]
    [] e.type = "PaymentAuthorized" -> [status |-> "processing", stage |-> "shipping"]
    [] e.type = "OrderShipped"      -> [status |-> "completed", stage |-> "completed"]
    [] e.type = "InventoryFailed"   -> [status |-> "failed", stage |-> "inventory"]
    [] e.type = "PaymentFailed"     -> [status |-> "failed", stage |-> "payment"]
    [] e.type = "OrderFailed"       -> [status |-> "failed", stage |-> FailedStage(e)]
    [] e.type = "OrderRetried"      -> [status |-> "processing", stage |-> o.stage]
    [] OTHER                        -> o

\* the order the first n events of log ev give
RECURSIVE Replay(_, _)
Replay(ev, n) == IF n = 0 THEN NoOrder ELSE Transition(Replay(ev, n - 1), ev[n])

\* no handler, callback or sweep is in flight
Quiescent ==
  /\ inv = EmptyBag
  /\ \A w \in DOMAIN sweep : sweep[w].pc = "idle"

\* C32: at every quiescent state the stored status and stage of the order
\* are the ones the replay of its event log gives.  The order is one that
\* has a log: an order row without any event is another matter.
C32_ReplayReconstructsOrder ==
  (Quiescent /\ events # <<>>) => order = Replay(events, Len(events))

\* C33: the event log is append-only: every step leaves the events that are
\* in the log where they are and as they are, and adds new ones at the end.
C33_AppendOnly ==
  [][/\ Len(events') >= Len(events)
     /\ SubSeq(events', 1, Len(events)) = events]_vars

\* handlers, a retry and a compensation have all written to the log
C33_Witness ==
  /\ Len(events) >= 6
  /\ HasEvent("OrderRetried")
  /\ HasEvent("CompensationStarted")
  /\ \E s \in Stages : HasEvent(SuccessType(s))

\* C34: every accepted retry appends an OrderRetried event whose
\* correlation id no earlier event of the order carries, and sets the order
\* to processing at the stage it failed at.
C34_RetryNewCorrelation ==
  [][RetryAcceptedStep =>
       /\ \A k \in 1..Len(events) : events[k].corr # events'[Len(events')].corr
       /\ order' = [status |-> "processing", stage |-> order.stage]
    ]_vars

\* C35: the sweep respects the cooldown: when it counts a retry attempt on a
\* dead-letter row, the row has had no attempt before or its last attempt is
\* at least one cooldown old.
C35_SweepRespectsCooldown ==
  [][\A w \in DOMAIN sweep :
       (sweep[w].pc = "check" /\ order.status = "failed" /\ SweepCheck(w))
       => \/ dlq[SweepRow(w)].last_retry_at = NoTime
          \/ now.ms - dlq[SweepRow(w)].last_retry_at >= RETRY_COOLDOWN_MS]_vars

\* C36: when the sweep reaches a dead-letter row whose order is no longer
\* failed, it marks the row resolved and goes on to the next row: the step
\* writes nothing else to the row, calls no retry and leaves the order, the
\* log and the requests in flight as they are.
C36_SweepSkipsResolved ==
  [][\A w \in DOMAIN sweep :
       (sweep[w].pc = "check" /\ order.status # "failed" /\ SweepCheck(w))
       => /\ dlq' = [dlq EXCEPT ![SweepRow(w)].status = "resolved"]
          /\ sweep'[w].pc # "call"
          /\ order' = order
          /\ events' = events
          /\ inv' = inv
          /\ retried' = retried]_vars

\* a sweep has marked resolved a row no attempt was ever counted on, while
\* the order is not failed
C36_Witness ==
  /\ order.status # "failed"
  /\ \E j \in 1..Len(dlq) : /\ dlq[j].status = "resolved"
                            /\ dlq[j].retry_count = 0
                            /\ dlq[j].last_retry_at = NoTime

\* the request for the stage that the retry accepted in this step has sent
\* can still be lost: nothing waits for it and no handler has taken it
Undelivered ==
  \E r \in BagToSet(inv') :
    /\ r.corr = events'[Len(events')].corr
    /\ r.pc = "sent"
    /\ r.watch = "none"

\* C37: a manual replay marks a dead-letter row replayed only when the
\* retry it triggers has succeeded: a replay that changes the row has had
\* its retry accepted and the stage started, and a replay whose retry is
\* rejected or fails leaves status, retry_count and replayed_at alone.
C37_ReplayedOnlyOnSuccess ==
  [][\A j \in 1..Len(dlq) :
       (ReplayItem(j) /\ dlq'[j] # dlq[j])
       => /\ RetryAcceptedStep
          /\ ~Undelivered]_vars

\* event types that record a stage outcome
StageEventTypes == {SuccessType(s) : s \in Stages} \cup FailureTypes

\* C38: completed is terminal: once the order is completed no step changes
\* its status or stage, and no step appends a stage or failure event.
C38_CompletedIsTerminal ==
  [][order.status = "completed"
     => /\ order' = order
        /\ \A k \in (Len(events) + 1)..Len(events') :
             events'[k].type \notin StageEventTypes]_vars

\* statuses of a dead-letter row that are final
FinalStatuses == {"replayed", "resolved", "permanently_failed"}

\* C39: a dead-letter row that has reached replayed, resolved or
\* permanently_failed keeps its status under concurrency: a sweep that
\* selected the row before the change neither overwrites the status nor
\* increments retry_count when it comes to the row.
C39_FinalStatusKept ==
  [][\A w \in DOMAIN sweep :
       ( /\ sweep[w].pc \in {"check", "call"}
         /\ dlq[SweepRow(w)].status \in FinalStatuses
         /\ SweepCheck(w) \/ SweepCall(w) )
       => /\ dlq'[SweepRow(w)].status = dlq[SweepRow(w)].status
          /\ dlq'[SweepRow(w)].retry_count = dlq[SweepRow(w)].retry_count]_vars

\* positions in the events table of the events of order id
LogOf(id) == {k \in 1..Len(db.events) : db.events[k].orderId = id}

\* the log of order id begins with OrderCreated
BeginsWithOrderCreated(id) ==
  /\ LogOf(id) # {}
  /\ db.events[CHOOSE k \in LogOf(id) : \A m \in LogOf(id) : k <= m].type = "OrderCreated"

\* C40: every stored order has OrderCreated as the first event of its log,
\* and order items belong to such an order: a createOrder call that returns
\* an error leaves no order row and no order items behind.
C40_StoredOrderHasOrderCreated ==
  /\ \A o \in db.orders : BeginsWithOrderCreated(o.id)
  /\ \A it \in db.items : BeginsWithOrderCreated(it.orderId)

====
